---- MODULE Spec2Model ----
(***************************************************************************)
(* Model of @ts-utilities/core: deepmerge (src/src/functions/deepmerge.ts) *)
(* over an explicit JavaScript heap, so that object identity, aliasing,    *)
(* cycles and in-place mutation are part of the state; hydrate and poll    *)
(* (src/src/functions/hydrate.ts) and shield (src/src/functions/object.ts),*)
(* each with its own specification.                                        *)
(***************************************************************************)
EXTENDS Integers, Sequences, FiniteSets, TLC

\* ------------------------------------------------------------------ bounds
\* Budget of mergeObjects invocations in one top-level call; a call that
\* would need more is recorded as diverged.
MaxCalls == 40
\* Largest argument a merged callable is invoked with.
MaxArg == 2
\* Depth to which two object graphs are compared structurally.
EqDepth == 6
\* Longest list of sources of a call.
MaxSources == 3
\* Longest array the caller builds.
MaxLen == 2

\* ------------------------------------------------------------------ values
\* A JavaScript value: t is its type tag, v its payload (a number, or the
\* heap index of an object or function).
U == [t |-> "undef", v |-> 0]
N == [t |-> "null", v |-> 0]
Num(n) == [t |-> "num", v |-> n]
Ref(i) == [t |-> "ref", v |-> i]
Fn(i) == [t |-> "fn", v |-> i]
\* A special object (Date, RegExp, Map): typeof 'object', not plain, not array.
Special == [t |-> "special", v |-> 0]
False == [t |-> "bool", v |-> 0]
True == [t |-> "bool", v |-> 1]
\* a string, by its length class: Str(0) is ''
Str(n) == [t |-> "str", v |-> n]
\* the strings that name a strategy; Word(w) is the string w
Words == <<"replace", "concat", "merge", "compose">>
Word(w) == [t |-> "word", v |-> CHOOSE i \in 1..Len(Words) : Words[i] = w]
\* the callbacks of the model, as values: Callback(name)
Callbacks == <<"keyA", "always", "count">>
Callback(name) == [t |-> "callback", v |-> CHOOSE i \in 1..Len(Callbacks) : Callbacks[i] = name]

\* the truthiness of a value: `if (result)`, `clone ? ... : ...`
TruthyMut(x) == x \notin {U, N}
Truthy(x) ==
  ~(\/ x \in {U, N}
    \/ x.t \in {"num", "bool", "str"} /\ x.v = 0)

\* Property names of the modelled objects.
KeyU == {"a", "b"}
\* The property names deepmerge reads from an options argument.
OptionKeys == {"arrayMerge", "clone", "customMerge", "functionMerge", "maxDepth"}
AllKeys == KeyU \cup OptionKeys

NoVals == [k \in AllKeys |-> U]

\* Heap cells. A mapping has ordered own keys and their values; an array has
\* elems; a base function is opaque; a composed function holds <<f, g>>.
MapObj(keys, vals) == [kind |-> "map", keys |-> keys, vals |-> vals, elems |-> <<>>]
ArrObj(elems) == [kind |-> "arr", keys |-> <<>>, vals |-> NoVals, elems |-> elems]
BaseFn == [kind |-> "base", keys |-> <<>>, vals |-> NoVals, elems |-> <<>>]
ComposeFn(f, g) == [kind |-> "compose", keys |-> <<>>, vals |-> NoVals, elems |-> <<f, g>>]

Range(s) == {s[i] : i \in 1..Len(s)}

\* Array.isArray(value)
IsArray(h, x) == x.t = "ref" /\ h[x.v].kind = "arr"

IsPlainObject(h, x) == x.t = "ref" /\ h[x.v].kind = "map"

\* typeof value === 'function'
IsFunction(x) == x.t = "fn"

\* Values a WeakMap accepts as keys (objects and functions); set() with any
\* other key throws a TypeError.
IsWeakKey(x) == x.t \in {"ref", "fn", "special"}

\* obj[key] for an own or absent property
Get(h, x, k) == IF k \in Range(h[x.v].keys) THEN h[x.v].vals[k] ELSE U

\* obj[key] = value, keeping insertion order of own keys
SetProp(obj, k, val) ==
  [obj EXCEPT !.keys = IF k \in Range(@) THEN @ ELSE Append(@, k),
              !.vals = [@ EXCEPT ![k] = val]]

\* new Set([...Object.keys(result), ...Object.keys(source)]) in iteration order
RECURSIVE KeyUnionFrom(_, _)
KeyUnionFrom(rk, sk) ==
  IF sk = <<>> THEN rk
  ELSE KeyUnionFrom(IF Head(sk) \in Range(rk) THEN rk ELSE Append(rk, Head(sk)), Tail(sk))

KeyUnionMut(rk, sk) == rk
KeyUnion(rk, sk) == KeyUnionFrom(rk, sk)

\* ------------------------------------------------------------------ options
\* customMerge callbacks of the model: none; one that decides 9 for key "a"
\* only; one that decides 7 for every key.
CustomMerge(name, key, tv, sv) ==
  IF name = "keyA" THEN (IF key = "a" THEN Num(9) ELSE U)
  ELSE IF name = "always" THEN Num(7)
  ELSE U

\* A callback with state, "count", returns 20 + n on its n-th invocation; the
\* others return what their arguments determine.
Decision(name, n, key, tv, sv) ==
  IF name = "count" THEN Num(20 + n) ELSE CustomMerge(name, key, tv, sv)

DefaultOptions ==
  [arrayMerge |-> "replace", clone |-> TRUE, functionMerge |-> "replace",
   maxDepth |-> 100, customMerge |-> "none"]

\* ------------------------------------------------------------------ merge state
\* What one top-level deepmerge call reads and writes: the heap, the visited
\* WeakMap (its key set), the warnings printed, the customMerge invocations,
\* whether a TypeError escaped, and the invocation count.
NewMerge(h) ==
  [heap |-> h, visited |-> {}, warns |-> 0, cmlog |-> <<>>, threw |-> FALSE,
   calls |-> 0, diverged |-> FALSE]

Alloc(m, obj) ==
  [val |-> Ref(Len(m.heap) + 1), m |-> [m EXCEPT !.heap = Append(@, obj)]]

AllocFn(m, obj) ==
  [val |-> Fn(Len(m.heap) + 1), m |-> [m EXCEPT !.heap = Append(@, obj)]]

Ret(val, m) == [val |-> val, m |-> m]

\* (...args) => { target(...args); source(...args); }
ComposeMut(f, g) == ComposeFn(g, f)
Compose(f, g) == ComposeFn(f, g)

\* functionMerge policy for two callables
FunctionPolicy(m, o, tv, sv) ==
  IF o.functionMerge = "compose" THEN AllocFn(m, Compose(tv, sv)) ELSE Ret(sv, m)

\* customMerge(key, targetValue, sourceValue), logged
CallCustomMut(m, o, key, tv, sv) == Ret(U, m)
CallCustom(m, o, key, tv, sv) ==
  Ret(Decision(o.customMerge, Len(m.cmlog) + 1, key, tv, sv),
      [m EXCEPT !.cmlog = Append(@, <<key, tv, sv>>)])

\* `result[key] = customMerge(key, targetValue, sourceValue)`, after the call
\* c1 in the condition returned a defined value
DecidedValueMut(c1, o, key, tv, sv) == c1
DecidedValue(c1, o, key, tv, sv) == CallCustom(c1.m, o, key, tv, sv)

\* visited.has(source)
VisitedHasMut(m, source) == FALSE
VisitedHas(m, source) == source \in m.visited

\* `depth >= maxDepth`
DepthExceededMut(depth, maxDepth) == depth > maxDepth
DepthExceeded(depth, maxDepth) == depth >= maxDepth

\* the value stored when a defined source value replaces the target value
SourceWinsMut(tv, sv) == tv
SourceWins(tv, sv) == sv

\* mergeArrays 'replace' (and default): [...source]
ReplaceArrayMut(t, s) == t \o s
ReplaceArray(t, s) == s

\* mergeArrays 'concat'
ConcatMut(t, s) == s \o t
Concat(t, s) == t \o s

\* `source !== undefined`
IsDefinedMut(source) == source \notin {U, N}
IsDefined(source) == source # U

\* the leaf case: the first source that is not undefined decides
RECURSIVE LeafLoop(_, _, _, _, _)
LeafLoop(m, o, target, sources, i) ==
  IF i > Len(sources) THEN Ret(target, m)
  ELSE LET source == sources[i] IN
    IF ~IsDefined(source) THEN LeafLoop(m, o, target, sources, i + 1)
    ELSE LET c == IF o.customMerge # "none"
                  THEN CallCustom(m, o, "", target, source) ELSE Ret(U, m)
         IN IF c.val # U THEN c
            ELSE IF IsFunction(target) /\ IsFunction(source)
                 THEN FunctionPolicy(c.m, o, target, source)
                 ELSE Ret(source, c.m)

RECURSIVE MergeObjects(_, _, _, _, _)
RECURSIVE SourcesLoop(_, _, _, _, _, _)
RECURSIVE KeysLoop(_, _, _, _, _, _, _)
RECURSIVE MergeArrays(_, _, _, _)
RECURSIVE ArrLoop(_, _, _, _, _, _)

\* the body of `for (const key of keys)` for one key; result and source are
\* plain mappings
MergeKey(m, o, result, source, key, depth) ==
  LET tv == Get(m.heap, result, key)
      sv == Get(m.heap, source, key)
      c1 == IF o.customMerge # "none" THEN CallCustom(m, o, key, tv, sv) ELSE Ret(U, m)
      r == IF c1.val # U THEN DecidedValue(c1, o, key, tv, sv)
           ELSE IF IsFunction(tv) /\ IsFunction(sv) THEN FunctionPolicy(c1.m, o, tv, sv)
           ELSE IF IsPlainObject(c1.m.heap, tv) /\ IsPlainObject(c1.m.heap, sv)
                THEN MergeObjects(c1.m, o, tv, <<sv>>, depth + 1)
           ELSE IF IsArray(c1.m.heap, tv) /\ IsArray(c1.m.heap, sv)
                THEN MergeArrays(c1.m, o, tv, sv)
           ELSE Ret(SourceWins(tv, sv), c1.m)
      assign == c1.val # U \/ (IsFunction(tv) /\ IsFunction(sv))
                \/ (IsPlainObject(c1.m.heap, tv) /\ IsPlainObject(c1.m.heap, sv))
                \/ (IsArray(c1.m.heap, tv) /\ IsArray(c1.m.heap, sv))
                \/ sv # U
  IN IF assign
     THEN [r.m EXCEPT !.heap[result.v] = SetProp(@, key, r.val)]
     ELSE r.m

KeysLoop(m, o, result, source, keys, i, depth) ==
  IF i > Len(keys) THEN m
  ELSE KeysLoop(MergeKey(m, o, result, source, keys[i], depth),
                o, result, source, keys, i + 1, depth)

\* `for (const source of sources)` from the i-th source on
SourcesLoop(m, o, result, sources, i, depth) ==
  IF i > Len(sources) \/ m.threw THEN Ret(result, m)
  ELSE LET source == sources[i] IN
    IF source \in {U, N} THEN SourcesLoop(m, o, result, sources, i + 1, depth)
    ELSE IF VisitedHas(m, source) THEN SourcesLoop(m, o, result, sources, i + 1, depth)
    ELSE IF ~IsWeakKey(source) THEN Ret(U, [m EXCEPT !.threw = TRUE])
    ELSE LET m1 == [m EXCEPT !.visited = @ \cup {source}] IN
      IF IsArray(m1.heap, result) /\ IsArray(m1.heap, source)
      THEN LET r == MergeArrays(m1, o, result, source)
           IN SourcesLoop(r.m, o, r.val, sources, i + 1, depth)
      ELSE IF IsPlainObject(m1.heap, result) /\ IsPlainObject(m1.heap, source)
      THEN LET keys == KeyUnion(m1.heap[result.v].keys, m1.heap[source.v].keys)
           IN SourcesLoop(KeysLoop(m1, o, result, source, keys, 1, depth),
                          o, result, sources, i + 1, depth)
      ELSE SourcesLoop(m1, o, source, sources, i + 1, depth)

MergeObjects(m, o, target, sources, depth) ==
  IF m.calls >= MaxCalls THEN Ret(target, [m EXCEPT !.diverged = TRUE])
  ELSE LET m0 == [m EXCEPT !.calls = @ + 1] IN
    IF DepthExceeded(depth, o.maxDepth) THEN Ret(target, [m0 EXCEPT !.warns = @ + 1])
    ELSE IF ~IsPlainObject(m0.heap, target) /\ ~IsArray(m0.heap, target)
    THEN LeafLoop(m0, o, target, sources, 1)
    ELSE LET c == IF o.clone THEN Alloc(m0, m0.heap[target.v]) ELSE Ret(target, m0)
         IN SourcesLoop(c.m, o, c.val, sources, 1, depth)

\* the 'merge' strategy's loop: merged is the fresh array being filled
ArrLoop(m, o, t, s, merged, i) ==
  LET tl == Len(m.heap[t.v].elems)
      sl == Len(m.heap[s.v].elems)
      maxLength == IF tl > sl THEN tl ELSE sl
  IN IF i > maxLength THEN Ret(merged, m)
     ELSE LET te == IF i <= tl THEN m.heap[t.v].elems[i] ELSE U
              se == IF i <= sl THEN m.heap[s.v].elems[i] ELSE U
              r == IF i <= tl /\ i <= sl
                   THEN IF IsPlainObject(m.heap, te) /\ IsPlainObject(m.heap, se)
                        THEN MergeObjects(m, o, te, <<se>>, 0)
                        ELSE Ret(se, m)
                   ELSE IF i <= tl THEN Ret(te, m) ELSE Ret(se, m)
          IN ArrLoop([r.m EXCEPT !.heap[merged.v].elems = Append(@, r.val)],
                     o, t, s, merged, i + 1)

\* mergeArrays(target, source, strategy); a caller-supplied strategy is the
\* documented (target, source) => [...target, ...source]
MergeArrays(m, o, t, s) ==
  IF o.arrayMerge = "custom" THEN Alloc(m, ArrObj(m.heap[t.v].elems \o m.heap[s.v].elems))
  ELSE IF o.arrayMerge = "concat"
  THEN Alloc(m, ArrObj(Concat(m.heap[t.v].elems, m.heap[s.v].elems)))
  ELSE IF o.arrayMerge = "merge"
  THEN LET a == Alloc(m, ArrObj(<<>>)) IN ArrLoop(a.m, o, t, s, a.val, 1)
  ELSE Alloc(m, ArrObj(ReplaceArray(m.heap[t.v].elems, m.heap[s.v].elems)))

\* deepmerge(target, ...sources, options) after argument parsing
DeepMerge(h, o, target, sources) == MergeObjects(NewMerge(h), o, target, sources, 0)

\* An options argument: a non-null, non-array object with at least one of
\* arrayMerge, clone, customMerge, functionMerge, maxDepth defined. Its fields
\* are the options record the call is made with.
OptArg == [t |-> "options", v |-> 0]

\* the test of the last argument: truthy, typeof 'object', not an array, and
\* one of the five properties not undefined
IsOptionsMut(h, x) ==
  /\ x.t = "ref" /\ ~IsArray(h, x)
  /\ \E k \in OptionKeys : k \in Range(h[x.v].keys)
IsOptions(h, x) ==
  /\ x.t = "ref" /\ ~IsArray(h, x)
  /\ \E k \in OptionKeys : Get(h, x, k) # U

\* `options = { ...options, ...lastArg }` and the destructuring with its
\* defaults; the arguments of the model hold a number at maxDepth and a
\* callback at customMerge when they hold anything there
OptionsOf(h, x) ==
  LET am == Get(h, x, "arrayMerge")
      cl == Get(h, x, "clone")
      cm == Get(h, x, "customMerge")
      fm == Get(h, x, "functionMerge")
      md == Get(h, x, "maxDepth")
  IN [arrayMerge |-> IF IsFunction(am) THEN "custom"
                     ELSE IF am.t = "word" /\ Words[am.v] \in {"concat", "merge"}
                     THEN Words[am.v] ELSE "replace",
      clone |-> IF cl = U THEN TRUE ELSE Truthy(cl),
      functionMerge |-> IF fm.t = "word" /\ Words[fm.v] = "compose"
                        THEN "compose" ELSE "replace",
      maxDepth |-> IF md.t = "num" THEN md.v ELSE 100,
      customMerge |-> IF cm.t = "callback" THEN Callbacks[cm.v] ELSE "none"]

\* deepmerge(target, ...args): a last argument that is an options object is
\* taken off and used; every remaining argument is one source
DeepmergeCall(h, o, target, args) ==
  LET lastArg == IF args = <<>> THEN U ELSE args[Len(args)]
      isOptions == lastArg = OptArg \/ IsOptions(h, lastArg)
      options == IF lastArg = OptArg THEN o
                 ELSE IF isOptions THEN OptionsOf(h, lastArg) ELSE DefaultOptions
      sources == IF isOptions THEN SubSeq(args, 1, Len(args) - 1) ELSE args
  IN MergeObjects(NewMerge(h), options, target, sources, 0)

\* f(arg) for a merged or caller-supplied callable: a base function records
\* its invocation and returns a number; a composed one calls both parts and
\* returns undefined
RECURSIVE Invoke(_, _, _, _)
Invoke(h, f, arg, log) ==
  IF h[f.v].kind = "compose"
  THEN LET r1 == Invoke(h, h[f.v].elems[1], arg, log)
           r2 == Invoke(h, h[f.v].elems[2], arg, r1.log)
       IN [ret |-> U, log |-> r2.log]
  ELSE [ret |-> Num(10 + f.v), log |-> Append(log, <<f.v, arg>>)]

\* ------------------------------------------------------------------ inputs
\* The caller's values before the call: two base functions and eight objects.
F == Fn(1)
G == Fn(2)
T == Ref(3)
S == Ref(4)
C == Ref(5)
D == Ref(6)
E == Ref(7)
H == Ref(8)
P == Ref(9)
Q == Ref(10)

\* marks a key the object literal does not have
Abs == [t |-> "absent", v |-> 0]

\* the literal { a: va, b: vb }
Lit(va, vb) ==
  MapObj((IF va = Abs THEN <<>> ELSE <<"a">>) \o (IF vb = Abs THEN <<>> ELSE <<"b">>),
         [k \in AllKeys |-> IF k = "a" THEN (IF va = Abs THEN U ELSE va)
                            ELSE IF k = "b" THEN (IF vb = Abs THEN U ELSE vb)
                            ELSE U])

Pool(ta, tb, sa, sb, ca, da, db, p, q) ==
  << BaseFn, BaseFn, Lit(ta, tb), Lit(sa, sb), Lit(ca, Abs), Lit(da, db),
     Lit(Num(1), Abs), Lit(Num(2), Num(2)), ArrObj(p), ArrObj(q) >>

SeqsUpTo(X, n) == UNION {[1..k -> X] : k \in 0..n}

With(field, val) == [DefaultOptions EXCEPT ![field] = val]

OptsFlat ==
  {DefaultOptions, With("functionMerge", "compose"), With("clone", FALSE),
   With("customMerge", "keyA"), With("customMerge", "always"),
   With("customMerge", "count"),
   [DefaultOptions EXCEPT !.customMerge = "keyA", !.functionMerge = "compose"]}

OptsList ==
  {DefaultOptions, With("clone", FALSE), With("functionMerge", "compose"),
   With("customMerge", "always"),
   [DefaultOptions EXCEPT !.customMerge = "keyA", !.functionMerge = "compose"]}

OptsGraph ==
  {DefaultOptions, With("maxDepth", 0), With("maxDepth", 1), With("maxDepth", 2),
   With("customMerge", "keyA"), With("clone", FALSE)}

OptsArray ==
  {DefaultOptions, With("arrayMerge", "concat"), With("arrayMerge", "merge"),
   With("arrayMerge", "custom"),
   [DefaultOptions EXCEPT !.arrayMerge = "merge", !.maxDepth = 1],
   With("customMerge", "keyA"),
   [DefaultOptions EXCEPT !.arrayMerge = "concat", !.customMerge = "keyA"]}

\* ------------------------------------------------------------------ the caller
VARIABLES
  phase,    \* "ready", "merged", "remerged", "listed" or "invoked"; "args" and
            \* "called" for a call whose arguments are not yet parsed
  pre,      \* the heap before the call
  target,   \* the call's target
  sources,  \* the call's sources (every argument after the target, for a
            \* call whose arguments are not yet parsed)
  opts,     \* the call's options
  res,      \* the call's return value and merge state
  res2,     \* the same for the caller's second call
  callee,   \* the callable that was invoked
  arg,      \* its argument
  trace     \* base-function invocations and return value of the invoked callable

mergeVars == <<phase, pre, target, sources, opts, res, res2, callee, arg, trace>>

NoRes == Ret(U, NewMerge(<<>>))
NoTrace == [ret |-> U, log |-> <<>>]

\* ------------------------------------------------------------------ poll's state
\* One call of poll(cond, { interval, timeout, jitter, signal }).
VARIABLES
  pc,         \* "idle" (no call), "init" (before the call), "cond" (awaiting
              \* cond()), "sleep" (awaiting sleep()) or "done" (settled)
  pollArgs,   \* cond's results call by call, interval, timeout, jitter, signal?
  sigAborted, \* signal.aborted
  listening,  \* abortListener is registered on the signal
  aborted,    \* poll's local flag
  elapsed,    \* Date.now() - start, at the last moment poll ran
  inflight,   \* cond() invocations that have not settled
  delay,      \* the delay of the sleep in progress
  outcome,    \* the state of the promise poll returned
  condAt,     \* the elapsed time at which each cond() invocation began
  abortAt     \* where poll was when the signal's abort event fired, "" before

pollVars ==
  <<pc, pollArgs, sigAborted, listening, aborted, elapsed, inflight, delay, outcome, condAt,
    abortAt>>

Pending == [kind |-> "pending", val |-> U, name |-> "", msg |-> ""]
NoArgs == [results |-> <<>>, interval |-> 0, timeout |-> 0, jitter |-> FALSE, signal |-> FALSE]

\* no poll call in this run
PollIdle ==
  /\ pc = "idle" /\ pollArgs = NoArgs /\ sigAborted = FALSE /\ listening = FALSE
  /\ aborted = FALSE /\ elapsed = 0 /\ inflight = 0 /\ delay = 0
  /\ outcome = Pending /\ condAt = <<>> /\ abortAt = ""

\* ------------------------------------------------------------------ shield's state
\* One call of shield(operation) and the caller's `await` of what it returned.
VARIABLES
  shPc,        \* "idle" (no call), "init" (before the call) or "returned"
  shOp,        \* the operation: a promise, a function or an async function,
               \* whether it fails, and the value it returns or throws
  shRet,       \* what shield returned: a tuple or a promise of one
  shSettled,   \* the promise passed in, or made by the async function, has settled
  shGot,       \* the tuple the caller's await produced
  shUnhandled, \* a promise rejected with no handler attached
  shLogged     \* console.log was called

shieldVars == <<shPc, shOp, shRet, shSettled, shGot, shUnhandled, shLogged>>

NoTuple == [kind |-> "none", err |-> U, data |-> U]
NoOp == [kind |-> "none", fails |-> FALSE, val |-> U]

\* no shield call in this run
ShieldIdle ==
  /\ shPc = "idle" /\ shOp = NoOp /\ shRet = NoTuple /\ shSettled = FALSE
  /\ shGot = NoTuple /\ shUnhandled = FALSE /\ shLogged = FALSE

\* ------------------------------------------------------------------ hydrate's state
\* One call of hydrate(data).
VARIABLES
  hyPc,   \* "idle" (no call), "init" (before the call) or "done"
  hyPre,  \* the heap before the call
  hyArg,  \* data
  hyRes   \* the return value and the heap after the call

hydrateVars == <<hyPc, hyPre, hyArg, hyRes>>

\* no hydrate call in this run
HydrateIdle ==
  /\ hyPc = "idle" /\ hyPre = <<>> /\ hyArg = U /\ hyRes = NoRes

\* the state of the operations a run does not call
others == <<pollVars, shieldVars, hydrateVars>>

vars == <<mergeVars, others>>


Input(h, t, ss, o) ==
  /\ pre = h
  /\ target = t
  /\ sources = ss
  /\ opts = o

\* two flat mappings, every kind of leaf on either side, one source
FlatInputs ==
  \E ta \in {Abs, U, Num(1), F}, tb \in {Abs, U, Num(1), F},
     sa \in {Abs, U, N, Num(2), G}, sb \in {Abs, U, N, Num(2), G}, o \in OptsFlat :
    Input(Pool(ta, tb, sa, sb, Abs, Abs, Abs, <<>>, <<>>), T, <<S>>, o)

\* any target and any list of sources, the target and repeated sources included
ListInputs ==
  \E sa \in {Abs, Num(2)}, t \in {T, Num(5), F, P},
     ss \in SeqsUpTo({S, D, T, U, N, Num(3), G, Q}, MaxSources), o \in OptsList :
    Input(Pool(Num(1), Abs, sa, Num(2), Abs, Num(3), Abs, <<Num(1)>>, <<Num(2)>>), t, ss, o)

\* nested, shared and cyclic mappings under a depth limit
GraphInputs ==
  \E ta \in {Abs, Num(1), C, T}, tb \in {Abs, C}, ca \in {Abs, Num(1), E},
     sa \in {Abs, Num(2), D, S}, sb \in {Abs, Num(2), D, S},
     da \in {Abs, Num(2), H, S}, db \in {Abs, Num(2)}, o \in OptsGraph :
    Input(Pool(ta, tb, sa, sb, ca, da, db, <<>>, <<>>), T, <<S>>, o)

\* arrays at the top level and under a key, of numbers and mappings, the
\* mappings possibly holding the array they are in
ArrayInputs ==
  \E ta \in {P, Num(1)}, sa \in {Q, P, Num(2)}, ca \in {Num(1), P}, da \in {Abs, Num(2), Q},
     p \in SeqsUpTo({Num(1), C}, MaxLen), q \in SeqsUpTo({Num(2), D}, MaxLen),
     ts \in {<<T, <<S>>>>, <<P, <<Q>>>>, <<P, <<Q, Q>>>>, <<P, <<P>>>>}, o \in OptsArray :
    Input(Pool(ta, Num(1), sa, Abs, ca, da, Num(2), p, q), ts[1], ts[2], o)

\* no deepmerge call in this run
MergeIdle ==
  /\ Input(<<>>, U, <<>>, DefaultOptions)
  /\ phase = "idle" /\ res = NoRes /\ res2 = NoRes
  /\ callee = U /\ arg = 0 /\ trace = NoTrace

Init ==
  /\ FlatInputs \/ ListInputs \/ GraphInputs \/ ArrayInputs
  /\ PollIdle /\ ShieldIdle /\ HydrateIdle
  /\ phase = "ready"
  /\ res = NoRes
  /\ res2 = NoRes
  /\ callee = U
  /\ arg = 0
  /\ trace = NoTrace

\* r = deepmerge(target, ...sources, opts)
Deepmerge ==
  /\ phase = "ready"
  /\ res' = DeepMerge(pre, opts, target, sources)
  /\ phase' = "merged"
  /\ UNCHANGED <<pre, target, sources, opts, res2, callee, arg, trace, others>>

\* r2 = deepmerge(r, source, opts), for a call with one source that returned
Remerge ==
  /\ phase = "merged"
  /\ Len(sources) = 1
  /\ ~res.m.threw
  /\ res2' = DeepMerge(res.m.heap, opts, res.val, sources)
  /\ phase' = "remerged"
  /\ UNCHANGED <<pre, target, sources, opts, res, callee, arg, trace, others>>

\* r(x) or r.k(x), for a callable result or a callable property of it
InvokeResult ==
  /\ phase = "merged"
  /\ ~res.m.threw
  /\ \E f \in {res.val} \cup
              (IF IsPlainObject(res.m.heap, res.val)
               THEN {Get(res.m.heap, res.val, k) : k \in KeyU} ELSE {}),
        x \in 1..MaxArg :
       /\ IsFunction(f)
       /\ callee' = f
       /\ arg' = x
       /\ trace' = Invoke(res.m.heap, f, x, <<>>)
  /\ phase' = "invoked"
  /\ UNCHANGED <<pre, target, sources, opts, res, res2, others>>

\* r2 = deepmerge(target, [s1, ..., sn], opts): the same call in the declared
\* form (target, sources, options), the caller building the array of sources
ListForm ==
  /\ phase = "merged"
  /\ res2' = DeepmergeCall(Append(pre, ArrObj(sources)), opts, target,
                           <<Ref(Len(pre) + 1), OptArg>>)
  /\ phase' = "listed"
  /\ UNCHANGED <<pre, target, sources, opts, res, callee, arg, trace, others>>

Next == Deepmerge \/ Remerge \/ ListForm \/ InvokeResult

Spec == Init /\ [][Next]_vars

\* ------------------------------------------------------------------ vocabulary
Post == res.m.heap
Returned == phase # "ready" /\ ~res.m.threw
OneSource == Len(sources) = 1
Keys(h, x) == Range(h[x.v].keys)
\* a value that is neither a mapping nor a sequence
NonComposite(h, x) == ~IsPlainObject(h, x) /\ ~IsArray(h, x)
\* target and the single source are plain mappings, default options
PlainPair ==
  /\ Returned /\ OneSource /\ opts = DefaultOptions
  /\ IsPlainObject(pre, target) /\ IsPlainObject(pre, sources[1])

\* the objects and functions reachable from a set of values
RECURSIVE ReachFrom(_, _, _)
ReachFrom(h, frontier, seen) ==
  LET ids == {x.v : x \in {y \in frontier : y.t \in {"ref", "fn"}}} \ seen
  IN IF ids = {} THEN seen
     ELSE ReachFrom(h,
            UNION {{h[i].vals[k] : k \in Range(h[i].keys)} \cup Range(h[i].elems) : i \in ids},
            seen \cup ids)
Reach(h, x) == ReachFrom(h, {x}, {})

\* the values an object holds
ChildVals(h, i) == {h[i].vals[k] : k \in Range(h[i].keys)} \cup Range(h[i].elems)
\* no object reachable from x is reachable from itself
Acyclic(h, x) == \A i \in Reach(h, x) : i \notin ReachFrom(h, ChildVals(h, i), {})
\* the places (holder, key or index) that hold a reference to object j
HoldersOf(h, among, j) ==
  {<<i, k>> \in among \X KeyU : k \in Range(h[i].keys) /\ h[i].vals[k] = Ref(j)}
  \cup {<<i, n>> \in among \X (1..(MaxLen + 1)) : n <= Len(h[i].elems) /\ h[i].elems[n] = Ref(j)}
\* the graph under x is a tree: no object is held in two places, the root in none
TreeLike(h, x) ==
  \A j \in Reach(h, x) :
    Cardinality(HoldersOf(h, Reach(h, x), j)) <= (IF Ref(j) = x THEN 0 ELSE 1)

\* two values, each in its heap, are structurally equal down to depth d:
\* same own keys and equal values for mappings, same length and equal elements
\* for arrays, identity for functions, equality for everything else
RECURSIVE DeepEq(_, _, _, _, _)
DeepEq(h1, x, h2, y, d) ==
  IF d = 0 THEN TRUE
  ELSE IF x.t = "ref" /\ y.t = "ref"
  THEN /\ h1[x.v].kind = h2[y.v].kind
       /\ Keys(h1, x) = Keys(h2, y)
       /\ \A k \in Keys(h1, x) : DeepEq(h1, h1[x.v].vals[k], h2, h2[y.v].vals[k], d - 1)
       /\ Len(h1[x.v].elems) = Len(h2[y.v].elems)
       /\ \A i \in 1..Len(h1[x.v].elems) :
            DeepEq(h1, h1[x.v].elems[i], h2, h2[y.v].elems[i], d - 1)
  ELSE x = y

\* ------------------------------------------------------------------ claims

\* the sources, by index, that are plain mappings with a defined value at k
Definers(k) ==
  {j \in 1..Len(sources) :
     IsPlainObject(pre, sources[j]) /\ Get(pre, sources[j], k) # U}
Last(js) == CHOOSE j \in js : \A i \in js : i <= j

\* C1: later sources override the target and every earlier source. For any
\* target and list of sources (default options), if the last source that
\* defines key k holds a non-composite value there, the result's value at k is
\* that value.
C1_LaterSourceOverrides ==
  (Returned /\ opts = DefaultOptions) =>
    \A k \in KeyU :
      (Definers(k) # {} /\ NonComposite(pre, Get(pre, sources[Last(Definers(k))], k))) =>
        /\ IsPlainObject(Post, res.val)
        /\ Get(Post, res.val, k) = Get(pre, sources[Last(Definers(k))], k)

DisjointPair ==
  PlainPair /\ Keys(pre, target) \cap Keys(pre, sources[1]) = {}

C4_DeepAtEverySharedKey ==
  (PlainPair /\ Acyclic(pre, sources[1])) =>
    \A k \in KeyU :
      (IsPlainObject(pre, Get(pre, target, k)) /\ IsPlainObject(pre, Get(pre, sources[1], k))) =>
        /\ IsPlainObject(Post, Get(Post, res.val, k))
        /\ \A j \in Keys(pre, Get(pre, sources[1], k)) :
             LET leaf == Get(pre, Get(pre, sources[1], k), j)
             IN (NonComposite(pre, leaf) /\ leaf # U) =>
                  Get(Post, Get(Post, res.val, k), j) = leaf


\* C5: non-mutation. With clone = true and a built-in array strategy, every
\* object reachable from the target is after the call what it was before it,
\* for any list of sources.
C5_TargetUnchanged ==
  (phase # "ready" /\ opts.clone /\ opts.arrayMerge \in {"replace", "concat", "merge"}) =>
    \A i \in Reach(pre, target) : Post[i] = pre[i]

\* a source without callables
NoCallables(h, x) == ~IsFunction(x) /\ \A i \in Reach(h, x) : h[i].kind \notin {"base", "compose"}

\* the source, without callables, was merged a second time; options other
\* than arrayMerge are the defaults
Remerged ==
  /\ phase = "remerged" /\ ~res2.m.threw /\ NoCallables(pre, sources[1])
  /\ [opts EXCEPT !.arrayMerge = "replace"] = DefaultOptions

\* C6 as stated: merging a source without callables a second time changes
\* nothing, for every built-in setting of arrayMerge.
C6_IdempotentAnyArrayMerge ==
  (Remerged /\ opts.arrayMerge \in {"replace", "concat", "merge"}) => DeepEq(res.m.heap, res.val, res2.m.heap, res2.val, EqDepth)

\* C6 amended: merging a source without callables a second time changes
\* nothing when arrayMerge is 'replace' or 'merge'; with 'concat' the second
\* merge appends the source's elements again.
C6_Idempotent ==
  (Remerged /\ opts.arrayMerge \in {"replace", "merge"}) =>
    DeepEq(res.m.heap, res.val, res2.m.heap, res2.val, EqDepth)

\* C6 witness: a second merge of arrays under 'replace' or 'merge' that had
\* something to merge
C6_Witness ==
  /\ Remerged /\ opts.arrayMerge \in {"replace", "merge"}
  /\ IsArray(pre, target) /\ IsArray(pre, sources[1])
  /\ pre[target.v].elems # <<>> /\ pre[sources[1].v].elems # <<>>
  /\ target # sources[1]
  /\ ~DeepEq(pre, target, res.m.heap, res.val, EqDepth)

\* C7: deepmerge terminates on every finite target and source graph, cyclic
\* or not (no call runs out of its invocation budget), and for a source that
\* references itself, deepmerge({}, source) returns a mapping whose key holds
\* the source itself, not an expansion of it: one object is allocated.
C7_CircularTerminates ==
  /\ phase # "ready" => ~res.m.diverged
  /\ phase = "remerged" => ~res2.m.diverged
  /\ (PlainPair /\ Keys(pre, target) = {}) =>
       \A k \in Keys(pre, sources[1]) :
         Get(pre, sources[1], k) = sources[1] =>
           /\ Get(Post, res.val, k) = sources[1]
           /\ Len(Post) = Len(pre) + 1

\* C7 witness: deepmerge({}, source) with source.a = source has returned
C7_Witness ==
  /\ PlainPair /\ phase = "merged" /\ Keys(pre, target) = {}
  /\ Get(pre, sources[1], "a") = sources[1]
  /\ Get(Post, res.val, "a") = sources[1]


\* the value found by following a path of keys through mappings
RECURSIVE At(_, _, _)
At(h, x, path) ==
  IF path = <<>> THEN x
  ELSE IF IsPlainObject(h, x) THEN At(h, Get(h, x, Head(path)), Tail(path))
  ELSE U

Prefix(path, n) == SubSeq(path, 1, n)

\* the key paths of length d along which target and source both hold a
\* mapping at every level, the last included
Branches(d) ==
  {p \in [1..d -> KeyU] :
     \A n \in 0..d : /\ IsPlainObject(pre, At(pre, target, Prefix(p, n)))
                     /\ IsPlainObject(pre, At(pre, sources[1], Prefix(p, n)))}

\* one plain target, one plain source, a depth limit, other options default
DepthLimited ==
  /\ phase # "ready" /\ OneSource
  /\ opts.maxDepth \in 0..2 /\ [opts EXCEPT !.maxDepth = 100] = DefaultOptions
  /\ IsPlainObject(pre, target) /\ IsPlainObject(pre, sources[1])

\* at every branch at the limit the result holds the target's own subtree,
\* untouched
KeepsTargetAtLimit ==
  \A p \in Branches(opts.maxDepth) :
    /\ At(Post, res.val, p) = At(pre, target, p)
    /\ \A i \in Reach(pre, At(pre, target, p)) : Post[i] = pre[i]

\* the defined leaves of the source at the key path p are in the result
LeavesMergedAt(p) ==
  \A k \in Keys(pre, At(pre, sources[1], p)) :
    LET leaf == Get(pre, At(pre, sources[1], p), k)
    IN (NonComposite(pre, leaf) /\ leaf # U) => At(Post, res.val, Append(p, k)) = leaf

\* C8 as stated: with maxDepth = d the call returns without an error, every
\* branch where target and source both hold a mapping at depth d keeps the
\* pre-merge target subtree, and one warning is emitted per such branch.
C8_OneWarningPerBranch ==
  DepthLimited =>
    /\ ~res.m.threw
    /\ KeepsTargetAtLimit
    /\ res.m.warns = Cardinality(Branches(opts.maxDepth))

\* C8 amended: with maxDepth = d the call returns without an error, every
\* branch where target and source both hold a mapping at depth d keeps the
\* pre-merge target subtree, and at most one warning is emitted per such
\* branch: exactly one when the source graph is a tree, levels 0..d-1 then
\* being merged normally; a branch under a source mapping that the visited
\* guard skips is never reached and gets no warning.
C8_DepthLimit ==
  DepthLimited =>
    /\ ~res.m.threw
    /\ KeepsTargetAtLimit
    /\ res.m.warns <= Cardinality(Branches(opts.maxDepth))
    /\ opts.maxDepth <= 1 => res.m.warns = Cardinality(Branches(opts.maxDepth))
    /\ opts.maxDepth >= 1 => LeavesMergedAt(<<>>)
    /\ TreeLike(pre, sources[1]) =>
         /\ res.m.warns = Cardinality(Branches(opts.maxDepth))
         /\ \A n \in 1..(opts.maxDepth - 1) : \A p \in Branches(n) : LeavesMergedAt(p)

\* C8 witness: maxDepth 2, a branch two levels down kept as the target's
\* subtree with one warning, and the source's leaf of level 1 merged
C8_Witness ==
  /\ DepthLimited /\ phase = "merged" /\ opts.maxDepth = 2
  /\ TreeLike(pre, sources[1])
  /\ <<"a", "a">> \in Branches(2)
  /\ res.m.warns = 1
  /\ At(Post, res.val, <<"a", "a">>) = At(pre, target, <<"a", "a">>)
  /\ At(pre, sources[1], <<"a", "b">>) = Num(2)
  /\ At(pre, target, <<"a", "b">>) = U
  /\ At(Post, res.val, <<"a", "b">>) = Num(2)

\* one source, arrayMerge 'concat', other options default
ConcatCall ==
  /\ Returned /\ OneSource /\ opts = With("arrayMerge", "concat")

\* C9: with arrayMerge = 'concat', sequences t and s found on both sides (as
\* target and source, or under the same key of target and source) merge into
\* the elements of t followed by the elements of s, of length len(t) + len(s).
C9_ConcatAppends ==
  ConcatCall =>
    /\ (IsArray(pre, target) /\ IsArray(pre, sources[1])) =>
         /\ IsArray(Post, res.val)
         /\ Post[res.val.v].elems = pre[target.v].elems \o pre[sources[1].v].elems
         /\ Len(Post[res.val.v].elems) =
              Len(pre[target.v].elems) + Len(pre[sources[1].v].elems)
    /\ (IsPlainObject(pre, target) /\ IsPlainObject(pre, sources[1])) =>
         \A k \in KeyU :
           LET t == Get(pre, target, k)
               s == Get(pre, sources[1], k)
               r == Get(Post, res.val, k)
           IN (IsArray(pre, t) /\ IsArray(pre, s)) =>
                /\ IsArray(Post, r)
                /\ Post[r.v].elems = pre[t.v].elems \o pre[s.v].elems
                /\ Len(Post[r.v].elems) = Len(pre[t.v].elems) + Len(pre[s.v].elems)

\* C9 witness: two different non-empty arrays under the same key, concatenated
C9_Witness ==
  /\ ConcatCall /\ phase = "merged"
  /\ IsPlainObject(pre, target) /\ IsPlainObject(pre, sources[1])
  /\ \E k \in KeyU :
       LET t == Get(pre, target, k)
           s == Get(pre, sources[1], k)
       IN /\ IsArray(pre, t) /\ IsArray(pre, s)
          /\ pre[t.v].elems # <<>> /\ pre[s.v].elems # <<>>
          /\ pre[t.v].elems # pre[s.v].elems
          /\ Len(Post[Get(Post, res.val, k).v].elems) = Len(pre[t.v].elems) + Len(pre[s.v].elems)

\* the target-side and source-side callables that were composed into callee:
\* target and first defined source at the top level, or the values of one key
ComposedFrom(f, g) ==
  \/ /\ IsFunction(target) /\ callee = res.val
     /\ f = target
     /\ \E j \in 1..Len(sources) :
          /\ sources[j] = g /\ \A i \in 1..(j - 1) : sources[i] = U
  \/ /\ IsPlainObject(pre, target) /\ OneSource /\ IsPlainObject(pre, sources[1])
     /\ \E k \in KeyU :
          /\ callee = Get(Post, res.val, k)
          /\ f = Get(pre, target, k) /\ g = Get(pre, sources[1], k)

BaseFns == {F, G}

\* C10: with functionMerge = 'compose', callables f (target side) and g
\* (source side) merge into a callable that on invocation calls f and then g,
\* each with the invocation's argument, and returns undefined, not a
\* combination of their return values.
C10_ComposeCallsBothInOrder ==
  (phase = "invoked" /\ opts = With("functionMerge", "compose")) =>
    \A f \in BaseFns, g \in BaseFns :
      ComposedFrom(f, g) =>
        /\ trace.log = << <<f.v, arg>>, <<g.v, arg>> >>
        /\ trace.ret = U

\* C10 witness: the composition of two different callables was invoked
C10_Witness ==
  /\ phase = "invoked" /\ opts = With("functionMerge", "compose")
  /\ ComposedFrom(F, G)
  /\ Post[callee.v].kind = "compose"
  /\ Len(trace.log) = 2

\* ------------------------------------------------------------------ customMerge

\* what the same call returns when no customMerge callback is given
Builtin == DeepMerge(pre, [opts EXCEPT !.customMerge = "none"], target, sources)

\* the same value in two heaps: the same composition for composed callables,
\* structural equality otherwise
SameValue(h1, x, h2, y) ==
  IF IsFunction(x) /\ IsFunction(y)
  THEN \/ x = y
       \/ /\ h1[x.v].kind = "compose" /\ h2[y.v].kind = "compose"
          /\ h1[x.v].elems = h2[y.v].elems
  ELSE DeepEq(h1, x, h2, y, EqDepth)

\* the built-in rule for this pair of values merges their contents, calling
\* customMerge again for the keys inside
NestedMerge(tv, sv) ==
  \/ IsPlainObject(pre, tv) /\ IsPlainObject(pre, sv)
  \/ IsArray(pre, tv) /\ IsArray(pre, sv) /\ opts.arrayMerge = "merge"

\* a call with a customMerge callback whose return value depends on its
\* arguments only has returned
CustomCall ==
  /\ Returned /\ opts.customMerge \in {"keyA", "always"} /\ opts.maxDepth > 0

\* the first source that is not undefined
FirstDefined ==
  {j \in 1..Len(sources) : sources[j] # U /\ \A i \in 1..(j - 1) : sources[i] = U}

\* C11: when customMerge returns a decided (non-undefined) value for (key,
\* targetValue, sourceValue), that value is the result at that key, whatever
\* the values on the two sides are (callables, mappings, sequences, leaves);
\* when it returns undefined, the key is present and holds what the same call
\* without a callback gives. For a leaf target the key is '' and the result is
\* the call's return value.
C11_CustomMergeDecides ==
  CustomCall =>
    /\ NonComposite(pre, target) =>
         \A j \in FirstDefined :
           LET d == CustomMerge(opts.customMerge, "", target, sources[j])
           IN IF d # U THEN res.val = d
              ELSE SameValue(Post, res.val, Builtin.m.heap, Builtin.val)
    /\ (OneSource /\ IsPlainObject(pre, target) /\ IsPlainObject(pre, sources[1])) =>
         \A k \in Keys(pre, target) \cup Keys(pre, sources[1]) :
           LET tv == Get(pre, target, k)
               sv == Get(pre, sources[1], k)
               d == CustomMerge(opts.customMerge, k, tv, sv)
               b == Builtin
           IN IF d # U
              THEN k \in Keys(Post, res.val) /\ Get(Post, res.val, k) = d
              ELSE /\ k \in Keys(Post, res.val) <=> k \in Keys(b.m.heap, b.val)
                   /\ IF NestedMerge(tv, sv)
                      THEN Post[Get(Post, res.val, k).v].kind = pre[tv.v].kind
                      ELSE SameValue(Post, Get(Post, res.val, k),
                                     b.m.heap, Get(b.m.heap, b.val, k))

\* C11 witness: a callback that decides 9 for key "a" only; both sides hold a
\* mapping at "a", which the built-in rules would merge, and the source's
\* number at "b" is taken by the built-in rules
C11_Witness ==
  /\ CustomCall /\ phase = "merged" /\ opts.customMerge = "keyA" /\ OneSource
  /\ IsPlainObject(pre, Get(pre, target, "a"))
  /\ IsPlainObject(pre, Get(pre, sources[1], "a"))
  /\ Get(Post, res.val, "a") = Num(9)
  /\ Get(pre, sources[1], "b") = Num(2)
  /\ Get(Post, res.val, "b") = Num(2)

\* ------------------------------------------------------------------ call forms

\* C12: deepmerge(target, [s1, ..., sn], options), the sources passed as one
\* array argument, returns what deepmerge(target, s1, ..., sn, options)
\* returns.
C12_ListFormIsVariadic ==
  (phase = "listed" /\ ~res.m.threw) =>
    /\ ~res2.m.threw
    /\ DeepEq(res.m.heap, res.val, res2.m.heap, res2.val, EqDepth)

\* ------------------------------------------------------------------ poll
\* Longest list of distinct cond results; later calls repeat the last one.
MaxPolls == 3
\* The clock stops counting here ("MaxTime or more").
MaxTime == 40

\* cond's promise rejects instead of resolving
Throws == [t |-> "throw", v |-> 0]

Resolved(v) == [kind |-> "resolved", val |-> v, name |-> "", msg |-> ""]
Rejected(name, msg) == [kind |-> "rejected", val |-> U, name |-> name, msg |-> msg]
\* new Error(message): its name is 'Error'
NewError(msg) == Rejected("Error", msg)

Min(a, b) == IF a < b THEN a ELSE b
\* the clock after d more time units
After(d) == Min(elapsed + d, MaxTime)

\* the result of the k-th cond() call
CondResult(k) == pollArgs.results[Min(k, Len(pollArgs.results))]

\* `signal?.aborted ?? false`
AbortedAtStartMut(hasSignal, sig) == FALSE
AbortedAtStart(hasSignal, sig) == IF hasSignal THEN sig ELSE FALSE

\* `elapsed >= timeout`
TimedOut(e, timeout) == e >= timeout

\* jitter ? interval + (Math.random() - 0.5) * interval * 0.2 : interval
Delays(interval, jitter) ==
  IF jitter THEN {interval - interval \div 10, interval} ELSE {interval}

\* how long a cond() call takes, and how late a timer fires
CondTimes == {0, 3}
Lateness == {0, 1}

\* sleep(delay, signal): resolves once the delay has passed; with an aborted
\* signal it may also settle before that, by resolving or by rejecting
Sleep(dl, sig) ==
  {[kind |-> "resolve", after |-> dl + late] : late \in Lateness}
  \cup (IF sig THEN {[kind |-> k, after |-> d] : k \in {"resolve", "reject"}, d \in {0, dl \div 2}}
        ELSE {})

\* the promise settles; `finally` removes the listener
Settle(o) ==
  /\ outcome' = o
  /\ pc' = "done"
  /\ listening' = FALSE

\* the head of the loop at time e with the flag ab: throw when aborted, else
\* invoke cond
LoopHead(ab, e) ==
  IF ab
  THEN Settle(NewError("Polling aborted")) /\ UNCHANGED <<condAt, inflight>>
  ELSE /\ pc' = "cond"
       /\ condAt' = Append(condAt, e)
       /\ inflight' = inflight + 1
       /\ UNCHANGED outcome

\* cond's results call by call: null, 0 or '' on the calls before the last, any
\* result on the last (poll makes no call after a truthy result or a rejection)
CondResults ==
  {rs \in SeqsUpTo({N, U, False, Num(0), Str(0), Str(1), Throws}, MaxPolls) \ {<<>>} :
     \A i \in 1..(Len(rs) - 1) : rs[i] \in {N, Num(0), Str(0)}}

PollInputs ==
  \E rs \in CondResults,
     timeout \in {5, 25}, jitter \in BOOLEAN, signal \in BOOLEAN :
    pollArgs = [results |-> rs, interval |-> 10, timeout |-> timeout,
                jitter |-> jitter, signal |-> signal]

InitPoll ==
  /\ MergeIdle /\ ShieldIdle /\ HydrateIdle
  /\ PollInputs
  /\ pc = "init" /\ sigAborted = FALSE /\ listening = FALSE /\ aborted = FALSE
  /\ elapsed = 0 /\ inflight = 0 /\ delay = 0 /\ outcome = Pending /\ condAt = <<>>
  /\ abortAt = ""

\* poll(cond, options) up to its first await
PollStart ==
  /\ pc = "init"
  /\ LET ab == AbortedAtStart(pollArgs.signal, sigAborted)
     IN /\ aborted' = ab
        /\ IF ab THEN LoopHead(ab, 0)
           ELSE LoopHead(ab, 0) /\ listening' = pollArgs.signal
  /\ UNCHANGED <<pollArgs, sigAborted, elapsed, delay, abortAt, mergeVars, shieldVars, hydrateVars>>

\* cond()'s promise settles after d time units; poll runs up to its next await
CondSettle ==
  /\ pc = "cond"
  /\ \E d \in CondTimes :
       LET result == CondResult(Len(condAt))
           e == After(d)
       IN /\ elapsed' = e
          /\ inflight' = inflight - 1
          /\ IF result = Throws THEN Settle(NewError("Condition failed")) /\ UNCHANGED delay
             ELSE IF Truthy(result) THEN Settle(Resolved(result)) /\ UNCHANGED delay
             ELSE IF TimedOut(e, pollArgs.timeout)
             THEN Settle(NewError("Polling timed out")) /\ UNCHANGED delay
             ELSE /\ \E dl \in Delays(pollArgs.interval, pollArgs.jitter) : delay' = dl
                  /\ pc' = "sleep"
                  /\ UNCHANGED <<outcome, listening>>
  /\ UNCHANGED <<pollArgs, sigAborted, aborted, condAt, abortAt, mergeVars, shieldVars, hydrateVars>>

\* sleep()'s promise settles; poll runs up to its next await
SleepSettle ==
  /\ pc = "sleep"
  /\ \E s \in Sleep(delay, sigAborted) :
       /\ elapsed' = After(s.after)
       /\ IF s.kind = "reject"
          THEN Settle(Rejected("AbortError", "Aborted")) /\ UNCHANGED <<condAt, inflight>>
          ELSE /\ LoopHead(aborted, After(s.after))
               /\ IF aborted THEN TRUE ELSE UNCHANGED listening
  /\ UNCHANGED <<pollArgs, sigAborted, aborted, delay, abortAt, mergeVars, shieldVars, hydrateVars>>

\* abortListener: `aborted = true`
AbortListenerMut(ab) == ab
AbortListener(ab) == TRUE

\* controller.abort(): the signal becomes aborted and its listeners run once
SignalAbort ==
  /\ pc # "idle" /\ pollArgs.signal /\ ~sigAborted
  /\ sigAborted' = TRUE
  /\ abortAt' = pc
  /\ aborted' = (IF listening THEN AbortListener(aborted) ELSE aborted)
  /\ listening' = FALSE
  /\ UNCHANGED <<pc, pollArgs, elapsed, inflight, delay, outcome, condAt, mergeVars, shieldVars, hydrateVars>>

NextPoll == PollStart \/ CondSettle \/ SleepSettle \/ SignalAbort

SpecPoll == InitPoll /\ [][NextPoll]_vars

\* The event loop runs every continuation that is ready, and every promise
\* poll awaits settles.
SpecPollLive ==
  SpecPoll /\ WF_vars(PollStart) /\ WF_vars(CondSettle) /\ WF_vars(SleepSettle)

\* the falsy values: null, undefined, false, 0 and ''
Falsy == {N, U, False, Num(0), Str(0)}

\* cond's results are falsy on calls 1..n-1 and truthy on call n
FirstTruthyAt(n) ==
  /\ CondResult(n) \notin Falsy \cup {Throws}
  /\ \A i \in 1..(n - 1) : CondResult(i) \in Falsy

\* what holds of every state of a poll call, for C13
StopsAtFirstTruthy ==
  /\ inflight <= 1
  /\ outcome.kind = "resolved" =>
       /\ FirstTruthyAt(Len(condAt))
       /\ outcome.val = CondResult(Len(condAt))
  /\ \A n \in 1..MaxPolls :
       (pc = "done" /\ FirstTruthyAt(n)) =>
         \/ outcome = Resolved(CondResult(n)) /\ Len(condAt) = n
         \/ /\ outcome.kind = "rejected" /\ Len(condAt) < n
            /\ sigAborted \/ outcome.msg = "Polling timed out"

\* C13: poll stops at the first truthy result. If cond's results are falsy on
\* calls 1..n-1 (null, undefined, false, 0 or '') and truthy on call n, poll
\* settles, and unless an abort or the timeout came first it resolves with
\* exactly the value of call n after exactly n invocations of cond; at most
\* one invocation is in progress at any time.
C13_StopsAtFirstTruthy == []StopsAtFirstTruthy /\ <>(pc = "done")

\* C13 witness: 0, '' and then a truthy string; resolved after three calls
C13_Witness ==
  /\ pc = "done" /\ ~sigAborted
  /\ pollArgs.results = <<Num(0), Str(0), Str(1)>>
  /\ outcome = Resolved(Str(1))
  /\ Len(condAt) = 3

\* C14: when poll is called with a signal that is already aborted, it rejects
\* with the error 'Polling aborted' and cond is never invoked, neither by the
\* call nor after it has settled.
C14_AlreadyAborted ==
  [][/\ (pc = "init" /\ sigAborted /\ pc' # "init") =>
          /\ pc' = "done"
          /\ outcome'.kind = "rejected" /\ outcome'.msg = "Polling aborted"
          /\ condAt' = <<>>
     /\ pc = "done" => (pc' = "done" /\ outcome' = outcome /\ condAt' = condAt)]_vars

\* C14 witness: a call with an aborted signal has settled without any cond
\* invocation
C14_Witness ==
  /\ pc = "done" /\ sigAborted /\ condAt = <<>>
  /\ outcome.kind = "rejected" /\ outcome.msg = "Polling aborted"

\* cond never returns a truthy value and never throws
NeverTruthy == \A i \in 1..Len(pollArgs.results) : pollArgs.results[i] \in Falsy

\* C15: timeout is the maximum total duration of a poll. When cond never
\* returns a truthy value (and the signal is not aborted), poll rejects with
\* 'Polling timed out', it settles no later than timeout after the call began,
\* and no cond invocation begins once the elapsed time has reached timeout.
C15_TimeoutBoundsDuration ==
  (pc = "done" /\ ~sigAborted /\ NeverTruthy) =>
    /\ outcome.kind = "rejected" /\ outcome.msg = "Polling timed out"
    /\ elapsed <= pollArgs.timeout
    /\ \A i \in 1..Len(condAt) : condAt[i] < pollArgs.timeout

\* poll rejected because of an abort, not of the timeout or of cond
AbortRejection ==
  /\ pc = "done" /\ outcome.kind = "rejected"
  /\ outcome.msg \notin {"Polling timed out", "Condition failed"}

\* C16: when polling is aborted through the signal, the error poll rejects
\* with has the name 'AbortError'.
C16_AbortErrorName == AbortRejection => outcome.name = "AbortError"

\* a step of a poll whose signal has fired: it starts no cond call, and when
\* it settles the call it rejects, or resolves with the truthy value of the
\* cond call that was pending when the signal fired
AfterAbort ==
  (sigAborted /\ abortAt # "done") =>
    /\ condAt' = condAt
    /\ (pc # "done" /\ pc' = "done") =>
         \/ outcome'.kind = "rejected"
         \/ /\ abortAt = "cond" /\ pc = "cond"
            /\ Truthy(CondResult(Len(condAt)))
            /\ outcome' = Resolved(CondResult(Len(condAt)))

\* C26: cond is never invoked after the signal's abort event has fired.
\* Whether the abort comes during a pending cond call or a pending sleep, no
\* new cond call starts after it and poll settles, rejecting unless the cond
\* call pending at the abort resolves truthy, whose value is then returned;
\* and whenever poll has settled (resolved, timed out, aborted or cond
\* rejected) the abort listener is no longer registered on the signal.
C26_NoCondAfterAbort ==
  /\ [][AfterAbort]_vars
  /\ [](pc = "done" => (~listening /\ inflight = 0))
  /\ (sigAborted ~> pc = "done")

\* C26 witness: the signal fired during the second cond call, which then
\* resolved truthy; poll returned that value and the listener is removed
C26_Witness ==
  /\ pc = "done" /\ abortAt = "cond" /\ ~listening
  /\ pollArgs.results = <<N, Str(1)>>
  /\ Len(condAt) = 2 /\ outcome = Resolved(Str(1))

\* ------------------------------------------------------------------ shield
\* the promise an async function returns when called
PromiseVal == [t |-> "promise", v |-> 0]

\* [error, data]
Tuple(e, d) == [kind |-> "tuple", err |-> e, data |-> d]
\* a promise of a tuple, pending or resolved with one
PendingPromise == [kind |-> "pending", err |-> U, data |-> U]
ResolvedWith(t) == [kind |-> "resolved", err |-> t.err, data |-> t.data]

\* (value) => [null, value], and `return [null, data]`
Succeeded(data) == Tuple(N, data)

\* (error) => [error, null], and `return [error as E, null]`
CaughtMut(error) == Tuple(N, N)
Caught(error) == Tuple(error, N)

\* operation(), for a function that does not throw: an async function
\* returns its promise
CallResult(op) == IF op.kind = "asyncfn" THEN PromiseVal ELSE op.val

\* values an operation returns, resolves with, throws or rejects with
ShieldVals == {N, U, False, True, Num(0), Num(1), Str(1), Special}

InitShield ==
  /\ MergeIdle /\ PollIdle /\ HydrateIdle
  /\ shOp \in [kind : {"promise", "fn", "asyncfn"}, fails : BOOLEAN, val : ShieldVals]
  /\ shPc = "init" /\ shRet = NoTuple /\ shSettled = FALSE /\ shGot = NoTuple
  /\ shUnhandled = FALSE /\ shLogged = FALSE

\* shield(operation)
ShieldCall ==
  /\ shPc = "init"
  /\ IF shOp.kind = "promise"
     THEN shRet' = PendingPromise /\ shLogged' = FALSE
     ELSE IF shOp.kind = "fn" /\ shOp.fails
          THEN shRet' = Caught(shOp.val) /\ shLogged' = TRUE
          ELSE shRet' = Succeeded(CallResult(shOp)) /\ shLogged' = FALSE
  /\ shPc' = "returned"
  /\ UNCHANGED <<shOp, shSettled, shGot, shUnhandled, mergeVars, pollVars, hydrateVars>>

\* the promise passed to shield settles and its then/catch handler runs, or
\* the promise the async function returned settles, with no handler on it
OperationSettles ==
  /\ shPc = "returned" /\ shOp.kind \in {"promise", "asyncfn"} /\ ~shSettled
  /\ shSettled' = TRUE
  /\ IF shOp.kind = "promise"
     THEN /\ shRet' = ResolvedWith(IF shOp.fails THEN Caught(shOp.val)
                                   ELSE Succeeded(shOp.val))
          /\ UNCHANGED shUnhandled
     ELSE shUnhandled' = shOp.fails /\ UNCHANGED shRet
  /\ UNCHANGED <<shPc, shOp, shGot, shLogged, mergeVars, pollVars, hydrateVars>>

\* const [error, data] = await shield(operation): a tuple is its own value,
\* a promise gives the tuple it resolved with
Await ==
  /\ shPc = "returned" /\ shGot = NoTuple /\ shRet.kind \in {"tuple", "resolved"}
  /\ shGot' = Tuple(shRet.err, shRet.data)
  /\ UNCHANGED <<shPc, shOp, shRet, shSettled, shUnhandled, shLogged,
                 mergeVars, pollVars, hydrateVars>>

NextShield == ShieldCall \/ OperationSettles \/ Await

SpecShield == InitShield /\ [][NextShield]_vars

\* the operation is a synchronous function or a promise, and the caller has
\* its tuple
TupleOfSyncOrPromise ==
  /\ shOp.kind \in {"fn", "promise"} /\ shGot # NoTuple

\* the tuple holds the thrown or rejected value first and null second on a
\* failure, null first and the returned or resolved value second on success
SeparatesFailure ==
  /\ shGot.err = (IF shOp.fails THEN shOp.val ELSE N)
  /\ shGot.data = (IF shOp.fails THEN N ELSE shOp.val)
  /\ shRet.kind \in {"tuple", "resolved"}

\* C17 as stated: the tuple separates failure from success, and its first
\* element is null exactly when the operation did not throw, for every thrown
\* value.
C17_NullIffNoThrow ==
  TupleOfSyncOrPromise =>
    /\ SeparatesFailure
    /\ shGot.err = N <=> ~shOp.fails

\* C17 amended: for a synchronous function or a promise, the first element is
\* the thrown (or rejected) value on a failure and null otherwise, the second
\* the returned (or resolved) value on success and null on a failure; shield
\* returns a tuple or a promise that resolves with one. The first element is
\* null when the operation did not fail and also when it threw null; every
\* other thrown value, undefined included, is kept as the first element.
C17_TupleSeparates ==
  TupleOfSyncOrPromise =>
    /\ SeparatesFailure
    /\ shGot.err = N <=> (~shOp.fails \/ shOp.val = N)

\* C17 witness: a function that threw undefined gave [undefined, null]
C17_Witness ==
  /\ TupleOfSyncOrPromise /\ shOp.kind = "fn" /\ shOp.fails /\ shOp.val = U
  /\ shGot = Tuple(U, N) /\ shLogged

\* C18: awaiting shield(asyncFn) yields [e, null] when the async function's
\* promise rejects with e and [null, v] when it resolves with v, and no
\* rejection is left unhandled.
C18_AsyncFunction ==
  shOp.kind = "asyncfn" =>
    /\ ~shUnhandled
    /\ shGot # NoTuple =>
         shGot = (IF shOp.fails THEN Tuple(shOp.val, N) ELSE Tuple(N, shOp.val))

\* ------------------------------------------------------------------ hydrate
\* A special object (Date, RegExp, Map) in the heap: typeof 'object', neither
\* plain nor an array; elems are its contents.
SpecialObj(elems) == [kind |-> "special", keys |-> <<>>, vals |-> NoVals, elems |-> elems]

\* Deepest nesting of convertNulls invocations the call stack holds.
MaxStack == 8

RECURSIVE ConvertNulls(_, _, _)
RECURSIVE ConvertElems(_, _, _, _, _)
RECURSIVE ConvertKeys(_, _, _, _, _)

\* value.map(convertNulls) from the i-th element on; out is the mapped prefix
ConvertElems(m, elems, i, out, depth) ==
  IF i > Len(elems) THEN [val |-> out, m |-> m]
  ELSE LET r == ConvertNulls(m, elems[i], depth)
       IN ConvertElems(r.m, elems, i + 1, Append(out, r.val), depth)

\* for (const key in value) result[key] = convertNulls(value[key]), from the
\* i-th key on
ConvertKeys(m, value, result, i, depth) ==
  LET keys == m.heap[value.v].keys
  IN IF i > Len(keys) THEN m
     ELSE LET r == ConvertNulls(m, m.heap[value.v].vals[keys[i]], depth)
          IN ConvertKeys([r.m EXCEPT !.heap[result.v] = SetProp(@, keys[i], r.val)],
                         value, result, i + 1, depth)

\* the value a null becomes
NullBecomes == U

\* convertNulls(value), depth invocations deep; a recursion deeper than the
\* call stack is recorded as diverged (a RangeError ends the call)
ConvertNulls(m, value, depth) ==
  IF depth >= MaxStack \/ m.diverged THEN Ret(value, [m EXCEPT !.diverged = TRUE])
  ELSE LET m0 == [m EXCEPT !.calls = @ + 1] IN
    IF value = N THEN Ret(NullBecomes, m0)
    ELSE IF value.t # "ref" THEN Ret(value, m0)
    ELSE IF IsArray(m0.heap, value)
    THEN LET r == ConvertElems(m0, m0.heap[value.v].elems, 1, <<>>, depth + 1)
         IN Alloc(r.m, ArrObj(r.val))
    ELSE IF IsPlainObject(m0.heap, value)
    THEN LET a == Alloc(m0, MapObj(<<>>, NoVals))
         IN Ret(a.val, ConvertKeys(a.m, value, a.val, 1, depth + 1))
    ELSE Ret(value, m0)

\* The caller's values before the call: two functions, the mappings T and S,
\* the array C and the Map D, which holds a null.
HydratePool(ta, tb, sa, sb, p) ==
  << BaseFn, BaseFn, Lit(ta, tb), Lit(sa, sb), ArrObj(p), SpecialObj(<<N>>) >>

HydrateInputs ==
  \E ta \in {Abs, N, Num(1), S, C, D, F}, tb \in {Abs, N, U},
     sa \in {Abs, N, Num(2), C, T}, sb \in {Abs, N},
     p \in SeqsUpTo({N, Num(1), S, D}, MaxLen),
     data \in {T, C, D, N, U, Num(1), F} :
    hyPre = HydratePool(ta, tb, sa, sb, p) /\ hyArg = data

InitHydrate ==
  /\ MergeIdle /\ PollIdle /\ ShieldIdle
  /\ HydrateInputs
  /\ hyPc = "init" /\ hyRes = NoRes

\* r = hydrate(data)
Hydrate ==
  /\ hyPc = "init"
  /\ hyRes' = ConvertNulls(NewMerge(hyPre), hyArg, 0)
  /\ hyPc' = "done"
  /\ UNCHANGED <<hyPre, hyArg, mergeVars, pollVars, shieldVars>>

NextHydrate == Hydrate

SpecHydrate == InitHydrate /\ [][NextHydrate]_vars

\* y (in h2) is x (in h1) with undefined for every null, down to depth d:
\* same keys in the same order for mappings, same length for arrays, and the
\* same value (the same object, for a special object or a function) elsewhere
RECURSIVE NullsReplaced(_, _, _, _, _)
NullsReplaced(h1, x, h2, y, d) ==
  IF d = 0 THEN TRUE
  ELSE IF x = N THEN y = U
  ELSE IF IsPlainObject(h1, x)
  THEN /\ IsPlainObject(h2, y)
       /\ h2[y.v].keys = h1[x.v].keys
       /\ \A k \in Keys(h1, x) : NullsReplaced(h1, Get(h1, x, k), h2, Get(h2, y, k), d - 1)
  ELSE IF IsArray(h1, x)
  THEN /\ IsArray(h2, y)
       /\ Len(h2[y.v].elems) = Len(h1[x.v].elems)
       /\ \A i \in 1..Len(h1[x.v].elems) :
            NullsReplaced(h1, h1[x.v].elems[i], h2, h2[y.v].elems[i], d - 1)
  ELSE y = x

\* C19: for every input built from plain objects, arrays and primitives,
\* hydrate returns a result with the same keys and indices, undefined wherever
\* the input had null and the input's value everywhere else; no object of the
\* input is changed; a special object or a function is returned as the same
\* object, its contents untouched.
C19_NullsToUndefined ==
  hyPc = "done" =>
    /\ ~hyRes.m.diverged
    /\ NullsReplaced(hyPre, hyArg, hyRes.m.heap, hyRes.val, EqDepth)
    /\ \A i \in 1..Len(hyPre) : hyRes.m.heap[i] = hyPre[i]

\* ------------------------------------------------------------------ arrayMerge 'merge'

\* a returned call with one source and arrayMerge 'merge', no callback, on
\* graphs without cycles
MergeStrategyCall ==
  /\ Returned /\ OneSource
  /\ opts.arrayMerge = "merge" /\ opts.customMerge = "none" /\ opts.clone
  /\ opts.maxDepth >= 1
  /\ Acyclic(pre, target) /\ Acyclic(pre, sources[1])

\* x is the merge of the mappings te and se: the source's defined leaves, and
\* the target's values at the keys the source does not have
MergedMapping(te, se, x) ==
  /\ IsPlainObject(Post, x)
  /\ \A k \in Keys(pre, se) :
       LET leaf == Get(pre, se, k)
       IN (NonComposite(pre, leaf) /\ leaf # U) => Get(Post, x, k) = leaf
  /\ \A k \in Keys(pre, te) \ Keys(pre, se) : Get(Post, x, k) = Get(pre, te, k)

\* r is the index-wise merge of the arrays t and s
MergedByIndex(t, s, r) ==
  LET tl == Len(pre[t.v].elems)
      sl == Len(pre[s.v].elems)
  IN /\ IsArray(Post, r)
     /\ Len(Post[r.v].elems) = (IF tl > sl THEN tl ELSE sl)
     /\ \A i \in 1..Len(Post[r.v].elems) :
          LET x == Post[r.v].elems[i]
          IN IF i <= tl /\ i <= sl
             THEN IF IsPlainObject(pre, pre[t.v].elems[i]) /\ IsPlainObject(pre, pre[s.v].elems[i])
                  THEN MergedMapping(pre[t.v].elems[i], pre[s.v].elems[i], x)
                  ELSE x = pre[s.v].elems[i]
             ELSE IF i <= tl THEN x = pre[t.v].elems[i]
             ELSE x = pre[s.v].elems[i]

\* C20: with arrayMerge = 'merge', sequences t and s found on both sides (as
\* target and source, or under the same key of target and source) merge into
\* a sequence of length max(len(t), len(s)) whose element at index i is the
\* merge of t[i] and s[i] when both are plain mappings (merged also when the
\* depth limit is 1: the element merge starts at depth 0), s[i] when both
\* exist but are not both mappings, and the one that exists otherwise.
C20_MergeByIndex ==
  MergeStrategyCall =>
    /\ (IsArray(pre, target) /\ IsArray(pre, sources[1])) =>
         MergedByIndex(target, sources[1], res.val)
    /\ (IsPlainObject(pre, target) /\ IsPlainObject(pre, sources[1])) =>
         \A k \in KeyU :
           (IsArray(pre, Get(pre, target, k)) /\ IsArray(pre, Get(pre, sources[1], k))) =>
             MergedByIndex(Get(pre, target, k), Get(pre, sources[1], k),
                           Get(Post, res.val, k))

\* ------------------------------------------------------------------ leaf targets

\* a call on a target that is neither a mapping nor a sequence has ended
LeafCall ==
  /\ phase # "ready" /\ NonComposite(pre, target) /\ opts.maxDepth >= 1

\* what the leaf rule gives for the target and the source s
LeafRule(s) ==
  LET d == CustomMerge(opts.customMerge, "", target, s)
  IN IF d # U THEN res.val = d
     ELSE IF IsFunction(target) /\ IsFunction(s)
     THEN IF opts.functionMerge = "compose"
          THEN /\ IsFunction(res.val) /\ res.val.v > Len(pre)
               /\ Post[res.val.v] = ComposeFn(target, s)
          ELSE res.val = s
     ELSE res.val = s

Cloned == DeepMerge(pre, [opts EXCEPT !.clone = TRUE], target, sources)

\* a call with clone = false on a mapping or a sequence has ended
InPlaceCall ==
  /\ phase # "ready" /\ ~opts.clone /\ opts.maxDepth >= 1
  /\ IsPlainObject(pre, target) \/ IsArray(pre, target)

\* no source shares an object with the target
Apart == \A j \in 1..Len(sources) : Reach(pre, sources[j]) \cap Reach(pre, target) = {}

\* C22: with clone = false the merge happens in place: for every composite
\* target (mapping or sequence) and every list of sources, the call returns
\* the target object itself, and after the call the target holds the merged
\* content (what the call with clone = true returns, when no source shares an
\* object with the target), a nested mapping of the target that was merged
\* being the same object as before.
C22_InPlace ==
  InPlaceCall =>
    /\ ~res.m.threw
    /\ res.val = target
    /\ ~Cloned.m.threw
    /\ Apart => DeepEq(Post, target, Cloned.m.heap, Cloned.val, EqDepth)
    /\ IsPlainObject(pre, target) =>
         \A k \in Keys(pre, target) :
           (/\ IsPlainObject(pre, Get(pre, target, k))
            /\ \E j \in 1..Len(sources) :
                 /\ IsPlainObject(pre, sources[j])
                 /\ IsPlainObject(pre, Get(pre, sources[j], k)))
             => Get(Post, target, k) = Get(pre, target, k)

\* ------------------------------------------------------------------ sources

\* C23: deepmerge never mutates a source. With clone = true and a built-in
\* array strategy, every object reachable from a source of the call is after
\* the call what it was before it, for every list of sources, those included
\* where a source's kind (mapping or sequence) differs from the kind of the
\* value merged so far and further sources follow it.
C23_SourcesUnchanged ==
  (phase # "ready" /\ opts.clone /\ opts.arrayMerge \in {"replace", "concat", "merge"}) =>
    \A j \in 1..Len(sources) :
      \A i \in Reach(pre, sources[j]) : Post[i] = pre[i]

\* ------------------------------------------------------------------ customMerge invocations

\* one mapping merged into a mapping with a callback, the values on both sides
\* leaves, so that every invocation is one of this merge
CallbackMerge ==
  /\ phase # "ready" /\ OneSource /\ opts.customMerge # "none" /\ opts.maxDepth >= 1
  /\ IsPlainObject(pre, target) /\ IsPlainObject(pre, sources[1])
  /\ \A k \in KeyU : /\ NonComposite(pre, Get(pre, target, k))
                     /\ NonComposite(pre, Get(pre, sources[1], k))

\* the keys of the union in the order they are merged
UnionKeys == KeyUnionFrom(pre[target.v].keys, pre[sources[1].v].keys)

Args(k) == <<k, Get(pre, target, k), Get(pre, sources[1], k)>>

\* the invocations expected for the i-th to the last-th key of the union,
\* after the invocations in log: one when the callback returns undefined, two
\* with the same arguments when it decides
RECURSIVE Invocations(_, _, _)
Invocations(i, last, log) ==
  IF i > last THEN log
  ELSE LET k == UnionKeys[i]
           d == Decision(opts.customMerge, Len(log) + 1, k, Args(k)[2], Args(k)[3])
       IN Invocations(i + 1, last, IF d = U THEN Append(log, Args(k))
                                   ELSE log \o <<Args(k), Args(k)>>)

\* C24: during a mapping merge customMerge is invoked, key by key in the
\* order of the key union, once for a key when it returns undefined and
\* exactly twice with the same (key, targetValue, sourceValue) when it returns
\* a decided value, and the value stored at the key is the one the second
\* invocation returned.
C24_CalledTwiceWhenDeciding ==
  CallbackMerge =>
    /\ ~res.m.threw
    /\ res.m.cmlog = Invocations(1, Len(UnionKeys), <<>>)
    /\ \A i \in 1..Len(UnionKeys) :
         LET k == UnionKeys[i]
             n == Len(Invocations(1, i, <<>>))
             second == Decision(opts.customMerge, n, k, Args(k)[2], Args(k)[3])
         IN second # U =>
              /\ res.m.cmlog[n] = Args(k) /\ res.m.cmlog[n - 1] = Args(k)
              /\ Get(Post, res.val, k) = second

\* C24 witness: the counting callback decided both keys, in four invocations;
\* the values stored are those of the second and the fourth
C24_Witness ==
  /\ CallbackMerge /\ phase = "merged" /\ opts.customMerge = "count"
  /\ UnionKeys = <<"a", "b">>
  /\ Len(res.m.cmlog) = 4
  /\ Get(Post, res.val, "a") = Num(22) /\ Get(Post, res.val, "b") = Num(24)

\* ------------------------------------------------------------------ the options argument

\* the option keys in the order the caller writes them
OptionKeySeq == <<"arrayMerge", "clone", "customMerge", "functionMerge", "maxDepth">>

\* the object literal with data keys a, b and the option-named keys that ov
\* gives a value
RECURSIVE AddKeys(_, _, _)
AddKeys(obj, ov, i) ==
  IF i > Len(OptionKeySeq) THEN obj
  ELSE AddKeys(IF ov[OptionKeySeq[i]] = Abs THEN obj
               ELSE SetProp(obj, OptionKeySeq[i], ov[OptionKeySeq[i]]),
               ov, i + 1)
OptLit(va, vb, ov) == AddKeys(Lit(va, vb), ov, 1)

\* what the caller writes under the option names in a data object
OptionVals ==
  [arrayMerge : {Abs, Word("concat")}, clone : {Abs, U, False, True},
   customMerge : {Abs, Callback("always")}, functionMerge : {Abs, Word("compose")},
   maxDepth : {Abs, Num(0)}]

\* the lists of arguments after the target: S may look like options, D is
\* plain data, Q an array, G a callable
ArgLists ==
  {<<>>, <<S>>, <<D, S>>, <<S, D>>, <<Q, S>>, <<G, S>>, <<D, Q>>, <<D, N>>, <<D, G>>}

\* deepmerge(target, ...args) with no options argument meant: the last
\* argument is data that may hold a key named like an option
ArgInputs ==
  \E sa \in {Abs, Num(2)}, sb \in {Abs, Num(2)}, ov \in OptionVals,
     t \in {T, P, F}, args \in ArgLists :
    Input([Pool(Num(1), Abs, sa, sb, Abs, Num(3), Abs, <<Num(1)>>, <<Num(2)>>)
             EXCEPT ![S.v] = OptLit(sa, sb, ov)],
          t, args, DefaultOptions)

InitArgs ==
  /\ ArgInputs
  /\ PollIdle /\ ShieldIdle /\ HydrateIdle
  /\ phase = "args"
  /\ res = NoRes /\ res2 = NoRes
  /\ callee = U /\ arg = 0 /\ trace = NoTrace

\* r = deepmerge(target, ...args)
VariadicCall ==
  /\ phase = "args"
  /\ res' = DeepmergeCall(pre, opts, target, sources)
  /\ phase' = "called"
  /\ UNCHANGED <<pre, target, sources, opts, res2, callee, arg, trace, others>>

NextArgs == VariadicCall

SpecArgs == InitArgs /\ [][NextArgs]_vars

LastArg == sources[Len(sources)]
Front == SubSeq(sources, 1, Len(sources) - 1)

\* a non-null, non-array object in which one of arrayMerge, clone,
\* customMerge, functionMerge, maxDepth is not undefined
Qualifies(x) ==
  /\ IsPlainObject(pre, x) \/ (x.t = "ref" /\ pre[x.v].kind = "special")
  /\ \E k \in OptionKeys : k \in Keys(pre, x) /\ pre[x.v].vals[k] # U

\* the keys the target and the arguments before the last have
FrontKeys ==
  UNION {Keys(pre, x) : x \in {y \in {target} \cup Range(Front) : IsPlainObject(pre, y)}}

\* C25: with the variadic call form the last argument is taken as the
\* options record, and is not merged as a source, exactly when it is a
\* non-null, non-array object in which at least one of arrayMerge, clone,
\* customMerge, functionMerge, maxDepth is not undefined: the call then returns
\* the merge of the arguments before it under the options it holds, and none
\* of its keys is in the result unless the target or another argument has it;
\* otherwise the call returns the merge of all the arguments under the
\* default options.
C25_LastArgIsOptions ==
  phase = "called" =>
    IF sources # <<>> /\ Qualifies(LastArg)
    THEN /\ res = DeepMerge(pre, OptionsOf(pre, LastArg), target, Front)
         /\ LastArg \notin res.m.visited
         /\ (~res.m.threw /\ IsPlainObject(Post, res.val)) =>
              Keys(Post, res.val) \subseteq FrontKeys
    ELSE res = DeepMerge(pre, DefaultOptions, target, sources)

\* C25 witness: deepmerge({ a: 1 }, { b: 2, clone: true }) returned a copy of
\* the target, without b
C25_Witness ==
  /\ phase = "called" /\ target = T /\ sources = <<S>>
  /\ pre[S.v] = OptLit(Abs, Num(2), [arrayMerge |-> Abs, clone |-> True, customMerge |-> Abs,
                                      functionMerge |-> Abs, maxDepth |-> Abs])
  /\ IsPlainObject(Post, res.val) /\ res.val # T
  /\ Keys(Post, res.val) = {"a"}

====
